---- MODULE Spec2Model ----
(***************************************************************************)
(* A model of recently_played.py: the Extract -> Transform -> Validate ->  *)
(* Load pipeline of main, the validation gate validate_data, and the       *)
(* loader load_data writing to the SQLite table my_played_tracks.          *)
(*                                                                         *)
(* Text values are sequences of characters, so that slicing                *)
(* (played_at[:10]) and parsing (strptime "%Y-%m-%d") are computed.  An    *)
(* ASCII character is the one-character string, any other character is     *)
(* written by its code point ("U+FF13").                                   *)
(* Python's None is the value None below.  The table is a bag of rows.     *)
(***************************************************************************)
EXTENDS Integers, Sequences, FiniteSets, Bags, TLC

VARIABLES
    clock,          \* the local calendar date dt.datetime.now() reads: <<y, m, d>>
    pc,             \* position of the running invocation
    data,           \* main: the response of extract_recently_played
    df,             \* the DataFrame: a sequence of rows
    today,          \* validate_data: its local `today` (line 122)
    valid,          \* main: what validate_data returned: "none", "True", "False"
    error,          \* the exception propagating to the caller, "none" when there is none
    caught,         \* load_data: the exception its except clause handled
    calls,          \* the functions invoked so far by this invocation, in order
    conn,           \* load_data: the sqlite3 connection: "none", "open", "closed"
    tableExists,    \* the store: whether my_played_tracks exists
    store,          \* the store: the bag of rows of my_played_tracks
    storeAtStart,   \* the store when the running invocation started
    repeat,         \* loader harness: this call re-delivers the previous call's batch
    prevStore,      \* loader harness: the store when the previous call returned
    prevError       \* loader harness: what the previous call raised

vars == << clock, pc, data, df, today, valid, error, caught, calls, conn,
           tableExists, store, storeAtStart, repeat, prevStore, prevError >>

(***************************************************************************)
(* Bounds                                                                  *)
(***************************************************************************)
\* The longest item list a response carries, and the longest batch.
MaxItems == 2

(***************************************************************************)
(* Text                                                                    *)
(***************************************************************************)
None == << "None" >>
EmptyStr == << >>

Digits == << "0", "1", "2", "3", "4", "5", "6", "7", "8", "9" >>

\* The decimal digits other than the ASCII ones (Unicode 14.0, the version of
\* CPython 3.11: 65 runs of ten code points, 0 to 9 in order, from Arabic-Indic
\* U+0660 to the segmented digits U+1FBF0).  The regular expressions of
\* strptime are str patterns: \d matches each of them and int() reads each as
\* the digit it stands for.
UnicodeDigits ==
    {
      << "U+0660", "U+0661", "U+0662", "U+0663", "U+0664", "U+0665", "U+0666", "U+0667", "U+0668", "U+0669" >>,
      << "U+06F0", "U+06F1", "U+06F2", "U+06F3", "U+06F4", "U+06F5", "U+06F6", "U+06F7", "U+06F8", "U+06F9" >>,
      << "U+07C0", "U+07C1", "U+07C2", "U+07C3", "U+07C4", "U+07C5", "U+07C6", "U+07C7", "U+07C8", "U+07C9" >>,
      << "U+0966", "U+0967", "U+0968", "U+0969", "U+096A", "U+096B", "U+096C", "U+096D", "U+096E", "U+096F" >>,
      << "U+09E6", "U+09E7", "U+09E8", "U+09E9", "U+09EA", "U+09EB", "U+09EC", "U+09ED", "U+09EE", "U+09EF" >>,
      << "U+0A66", "U+0A67", "U+0A68", "U+0A69", "U+0A6A", "U+0A6B", "U+0A6C", "U+0A6D", "U+0A6E", "U+0A6F" >>,
      << "U+0AE6", "U+0AE7", "U+0AE8", "U+0AE9", "U+0AEA", "U+0AEB", "U+0AEC", "U+0AED", "U+0AEE", "U+0AEF" >>,
      << "U+0B66", "U+0B67", "U+0B68", "U+0B69", "U+0B6A", "U+0B6B", "U+0B6C", "U+0B6D", "U+0B6E", "U+0B6F" >>,
      << "U+0BE6", "U+0BE7", "U+0BE8", "U+0BE9", "U+0BEA", "U+0BEB", "U+0BEC", "U+0BED", "U+0BEE", "U+0BEF" >>,
      << "U+0C66", "U+0C67", "U+0C68", "U+0C69", "U+0C6A", "U+0C6B", "U+0C6C", "U+0C6D", "U+0C6E", "U+0C6F" >>,
      << "U+0CE6", "U+0CE7", "U+0CE8", "U+0CE9", "U+0CEA", "U+0CEB", "U+0CEC", "U+0CED", "U+0CEE", "U+0CEF" >>,
      << "U+0D66", "U+0D67", "U+0D68", "U+0D69", "U+0D6A", "U+0D6B", "U+0D6C", "U+0D6D", "U+0D6E", "U+0D6F" >>,
      << "U+0DE6", "U+0DE7", "U+0DE8", "U+0DE9", "U+0DEA", "U+0DEB", "U+0DEC", "U+0DED", "U+0DEE", "U+0DEF" >>,
      << "U+0E50", "U+0E51", "U+0E52", "U+0E53", "U+0E54", "U+0E55", "U+0E56", "U+0E57", "U+0E58", "U+0E59" >>,
      << "U+0ED0", "U+0ED1", "U+0ED2", "U+0ED3", "U+0ED4", "U+0ED5", "U+0ED6", "U+0ED7", "U+0ED8", "U+0ED9" >>,
      << "U+0F20", "U+0F21", "U+0F22", "U+0F23", "U+0F24", "U+0F25", "U+0F26", "U+0F27", "U+0F28", "U+0F29" >>,
      << "U+1040", "U+1041", "U+1042", "U+1043", "U+1044", "U+1045", "U+1046", "U+1047", "U+1048", "U+1049" >>,
      << "U+1090", "U+1091", "U+1092", "U+1093", "U+1094", "U+1095", "U+1096", "U+1097", "U+1098", "U+1099" >>,
      << "U+17E0", "U+17E1", "U+17E2", "U+17E3", "U+17E4", "U+17E5", "U+17E6", "U+17E7", "U+17E8", "U+17E9" >>,
      << "U+1810", "U+1811", "U+1812", "U+1813", "U+1814", "U+1815", "U+1816", "U+1817", "U+1818", "U+1819" >>,
      << "U+1946", "U+1947", "U+1948", "U+1949", "U+194A", "U+194B", "U+194C", "U+194D", "U+194E", "U+194F" >>,
      << "U+19D0", "U+19D1", "U+19D2", "U+19D3", "U+19D4", "U+19D5", "U+19D6", "U+19D7", "U+19D8", "U+19D9" >>,
      << "U+1A80", "U+1A81", "U+1A82", "U+1A83", "U+1A84", "U+1A85", "U+1A86", "U+1A87", "U+1A88", "U+1A89" >>,
      << "U+1A90", "U+1A91", "U+1A92", "U+1A93", "U+1A94", "U+1A95", "U+1A96", "U+1A97", "U+1A98", "U+1A99" >>,
      << "U+1B50", "U+1B51", "U+1B52", "U+1B53", "U+1B54", "U+1B55", "U+1B56", "U+1B57", "U+1B58", "U+1B59" >>,
      << "U+1BB0", "U+1BB1", "U+1BB2", "U+1BB3", "U+1BB4", "U+1BB5", "U+1BB6", "U+1BB7", "U+1BB8", "U+1BB9" >>,
      << "U+1C40", "U+1C41", "U+1C42", "U+1C43", "U+1C44", "U+1C45", "U+1C46", "U+1C47", "U+1C48", "U+1C49" >>,
      << "U+1C50", "U+1C51", "U+1C52", "U+1C53", "U+1C54", "U+1C55", "U+1C56", "U+1C57", "U+1C58", "U+1C59" >>,
      << "U+A620", "U+A621", "U+A622", "U+A623", "U+A624", "U+A625", "U+A626", "U+A627", "U+A628", "U+A629" >>,
      << "U+A8D0", "U+A8D1", "U+A8D2", "U+A8D3", "U+A8D4", "U+A8D5", "U+A8D6", "U+A8D7", "U+A8D8", "U+A8D9" >>,
      << "U+A900", "U+A901", "U+A902", "U+A903", "U+A904", "U+A905", "U+A906", "U+A907", "U+A908", "U+A909" >>,
      << "U+A9D0", "U+A9D1", "U+A9D2", "U+A9D3", "U+A9D4", "U+A9D5", "U+A9D6", "U+A9D7", "U+A9D8", "U+A9D9" >>,
      << "U+A9F0", "U+A9F1", "U+A9F2", "U+A9F3", "U+A9F4", "U+A9F5", "U+A9F6", "U+A9F7", "U+A9F8", "U+A9F9" >>,
      << "U+AA50", "U+AA51", "U+AA52", "U+AA53", "U+AA54", "U+AA55", "U+AA56", "U+AA57", "U+AA58", "U+AA59" >>,
      << "U+ABF0", "U+ABF1", "U+ABF2", "U+ABF3", "U+ABF4", "U+ABF5", "U+ABF6", "U+ABF7", "U+ABF8", "U+ABF9" >>,
      << "U+FF10", "U+FF11", "U+FF12", "U+FF13", "U+FF14", "U+FF15", "U+FF16", "U+FF17", "U+FF18", "U+FF19" >>,
      << "U+104A0", "U+104A1", "U+104A2", "U+104A3", "U+104A4", "U+104A5", "U+104A6", "U+104A7", "U+104A8", "U+104A9" >>,
      << "U+10D30", "U+10D31", "U+10D32", "U+10D33", "U+10D34", "U+10D35", "U+10D36", "U+10D37", "U+10D38", "U+10D39" >>,
      << "U+11066", "U+11067", "U+11068", "U+11069", "U+1106A", "U+1106B", "U+1106C", "U+1106D", "U+1106E", "U+1106F" >>,
      << "U+110F0", "U+110F1", "U+110F2", "U+110F3", "U+110F4", "U+110F5", "U+110F6", "U+110F7", "U+110F8", "U+110F9" >>,
      << "U+11136", "U+11137", "U+11138", "U+11139", "U+1113A", "U+1113B", "U+1113C", "U+1113D", "U+1113E", "U+1113F" >>,
      << "U+111D0", "U+111D1", "U+111D2", "U+111D3", "U+111D4", "U+111D5", "U+111D6", "U+111D7", "U+111D8", "U+111D9" >>,
      << "U+112F0", "U+112F1", "U+112F2", "U+112F3", "U+112F4", "U+112F5", "U+112F6", "U+112F7", "U+112F8", "U+112F9" >>,
      << "U+11450", "U+11451", "U+11452", "U+11453", "U+11454", "U+11455", "U+11456", "U+11457", "U+11458", "U+11459" >>,
      << "U+114D0", "U+114D1", "U+114D2", "U+114D3", "U+114D4", "U+114D5", "U+114D6", "U+114D7", "U+114D8", "U+114D9" >>,
      << "U+11650", "U+11651", "U+11652", "U+11653", "U+11654", "U+11655", "U+11656", "U+11657", "U+11658", "U+11659" >>,
      << "U+116C0", "U+116C1", "U+116C2", "U+116C3", "U+116C4", "U+116C5", "U+116C6", "U+116C7", "U+116C8", "U+116C9" >>,
      << "U+11730", "U+11731", "U+11732", "U+11733", "U+11734", "U+11735", "U+11736", "U+11737", "U+11738", "U+11739" >>,
      << "U+118E0", "U+118E1", "U+118E2", "U+118E3", "U+118E4", "U+118E5", "U+118E6", "U+118E7", "U+118E8", "U+118E9" >>,
      << "U+11950", "U+11951", "U+11952", "U+11953", "U+11954", "U+11955", "U+11956", "U+11957", "U+11958", "U+11959" >>,
      << "U+11C50", "U+11C51", "U+11C52", "U+11C53", "U+11C54", "U+11C55", "U+11C56", "U+11C57", "U+11C58", "U+11C59" >>,
      << "U+11D50", "U+11D51", "U+11D52", "U+11D53", "U+11D54", "U+11D55", "U+11D56", "U+11D57", "U+11D58", "U+11D59" >>,
      << "U+11DA0", "U+11DA1", "U+11DA2", "U+11DA3", "U+11DA4", "U+11DA5", "U+11DA6", "U+11DA7", "U+11DA8", "U+11DA9" >>,
      << "U+16A60", "U+16A61", "U+16A62", "U+16A63", "U+16A64", "U+16A65", "U+16A66", "U+16A67", "U+16A68", "U+16A69" >>,
      << "U+16AC0", "U+16AC1", "U+16AC2", "U+16AC3", "U+16AC4", "U+16AC5", "U+16AC6", "U+16AC7", "U+16AC8", "U+16AC9" >>,
      << "U+16B50", "U+16B51", "U+16B52", "U+16B53", "U+16B54", "U+16B55", "U+16B56", "U+16B57", "U+16B58", "U+16B59" >>,
      << "U+1D7CE", "U+1D7CF", "U+1D7D0", "U+1D7D1", "U+1D7D2", "U+1D7D3", "U+1D7D4", "U+1D7D5", "U+1D7D6", "U+1D7D7" >>,
      << "U+1D7D8", "U+1D7D9", "U+1D7DA", "U+1D7DB", "U+1D7DC", "U+1D7DD", "U+1D7DE", "U+1D7DF", "U+1D7E0", "U+1D7E1" >>,
      << "U+1D7E2", "U+1D7E3", "U+1D7E4", "U+1D7E5", "U+1D7E6", "U+1D7E7", "U+1D7E8", "U+1D7E9", "U+1D7EA", "U+1D7EB" >>,
      << "U+1D7EC", "U+1D7ED", "U+1D7EE", "U+1D7EF", "U+1D7F0", "U+1D7F1", "U+1D7F2", "U+1D7F3", "U+1D7F4", "U+1D7F5" >>,
      << "U+1D7F6", "U+1D7F7", "U+1D7F8", "U+1D7F9", "U+1D7FA", "U+1D7FB", "U+1D7FC", "U+1D7FD", "U+1D7FE", "U+1D7FF" >>,
      << "U+1E140", "U+1E141", "U+1E142", "U+1E143", "U+1E144", "U+1E145", "U+1E146", "U+1E147", "U+1E148", "U+1E149" >>,
      << "U+1E2F0", "U+1E2F1", "U+1E2F2", "U+1E2F3", "U+1E2F4", "U+1E2F5", "U+1E2F6", "U+1E2F7", "U+1E2F8", "U+1E2F9" >>,
      << "U+1E950", "U+1E951", "U+1E952", "U+1E953", "U+1E954", "U+1E955", "U+1E956", "U+1E957", "U+1E958", "U+1E959" >>,
      << "U+1FBF0", "U+1FBF1", "U+1FBF2", "U+1FBF3", "U+1FBF4", "U+1FBF5", "U+1FBF6", "U+1FBF7", "U+1FBF8", "U+1FBF9" >> }

DigitTables == {Digits} \cup UnicodeDigits

\* The class [0-9] of a pattern: the ASCII digits only.
IsAsciiDigit(c) == \E i \in DOMAIN Digits : Digits[i] = c

\* The class \d of a pattern: a decimal digit of any script.
IsDigit(c) == IsAsciiDigit(c) \/ \E t \in UnicodeDigits : \E i \in DOMAIN t : t[i] = c

\* int() of a decimal digit.
DigitVal(c) ==
    LET t == IF IsAsciiDigit(c) THEN Digits
             ELSE CHOOSE t \in UnicodeDigits : \E i \in DOMAIN t : t[i] = c
    IN  (CHOOSE i \in DOMAIN t : t[i] = c) - 1

Min(a, b) == IF a < b THEN a ELSE b

\* s[:10]
Slice10(s) == SubSeq(s, 1, Min(10, Len(s)))

(***************************************************************************)
(* Calendar dates and dt.datetime.strptime(ts, "%Y-%m-%d")                 *)
(***************************************************************************)
IsLeap(y) == (y % 4 = 0 /\ y % 100 # 0) \/ y % 400 = 0

DaysInMonth(y, m) ==
    IF m = 2 THEN (IF IsLeap(y) THEN 29 ELSE 28)
    ELSE IF m \in {4, 6, 9, 11} THEN 30 ELSE 31

NoDate == << 0, 0, 0 >>

\* The directive %m: 1[0-2]|0[1-9]|[1-9]
MatchesMonth(t) ==
    \/ Len(t) = 1 /\ IsAsciiDigit(t[1]) /\ t[1] # "0"
    \/ Len(t) = 2 /\ t[1] = "1" /\ t[2] \in {"0", "1", "2"}
    \/ Len(t) = 2 /\ t[1] = "0" /\ IsAsciiDigit(t[2]) /\ t[2] # "0"

\* The directive %d: 3[01]|[12]\d|0[1-9]|[1-9]| [1-9]
MatchesDay(t) ==
    \/ Len(t) = 1 /\ IsAsciiDigit(t[1]) /\ t[1] # "0"
    \/ Len(t) = 2 /\ t[1] = "3" /\ t[2] \in {"0", "1"}
    \/ Len(t) = 2 /\ t[1] \in {"1", "2"} /\ IsDigit(t[2])
    \/ Len(t) = 2 /\ t[1] \in {"0", " "} /\ IsAsciiDigit(t[2]) /\ t[2] # "0"

\* The number a matched month or day text stands for.
FieldVal(t) ==
    IF Len(t) = 1 THEN DigitVal(t[1])
    ELSE IF t[1] = " " THEN DigitVal(t[2])
    ELSE 10 * DigitVal(t[1]) + DigitVal(t[2])

\* Where the month text ends: the second "-" is at index 7 or 8.
MonthLen(s) == IF Len(s) >= 7 /\ s[7] = "-" THEN 1 ELSE 2

\* strptime(s, "%Y-%m-%d"): [ok |-> the text parses, date |-> the date it names].
\* A text that does not match the format, that has text left over, or that
\* names a day its month does not have, raises ValueError (ok = FALSE).
strptime(s) ==
    LET ml == MonthLen(s)
        mTxt == SubSeq(s, 6, 5 + ml)
        dTxt == SubSeq(s, 7 + ml, Len(s))
        shape == /\ Len(s) >= 8 /\ Len(s) <= 10
                 /\ \A i \in 1..4 : IsDigit(s[i])
                 /\ s[5] = "-"
                 /\ Len(s) >= 6 + ml /\ s[6 + ml] = "-"
                 /\ MatchesMonth(mTxt)
                 /\ MatchesDay(dTxt)
    IN  IF ~shape THEN [ok |-> FALSE, date |-> NoDate]
        ELSE LET y == 1000 * DigitVal(s[1]) + 100 * DigitVal(s[2])
                        + 10 * DigitVal(s[3]) + DigitVal(s[4])
                 m == FieldVal(mTxt)
                 d == FieldVal(dTxt)
             IN  IF y >= 1 /\ d <= DaysInMonth(y, m)
                 THEN [ok |-> TRUE, date |-> << y, m, d >>]
                 ELSE [ok |-> FALSE, date |-> NoDate]

(***************************************************************************)
(* The values the model draws its inputs from                              *)
(***************************************************************************)
Day1 == << 2024, 1, 1 >>
Day2 == << 2024, 1, 2 >>

\* The dates the local clock shows during the behaviours explored.
ClockDays == {Day1, Day2}

DateDay1 == << "2", "0", "2", "4", "-", "0", "1", "-", "0", "1" >>
DateDay2 == << "2", "0", "2", "4", "-", "0", "1", "-", "0", "2" >>
\* 2 January written without padding: strptime reads it as the same date.
DateDay2Short == << "2", "0", "2", "4", "-", "1", "-", "2" >>
\* 2 January with the year in fullwidth digits: strptime reads it as the same date.
DateDay2Wide == << "U+FF12", "U+FF10", "U+FF12", "U+FF14", "-", "0", "1", "-", "0", "2" >>

P11 == DateDay1 \o << "T", "1" >>
P21 == DateDay2 \o << "T", "1" >>
P22 == DateDay2 \o << "T", "2" >>
P23 == DateDay2 \o << "T", "3" >>

SongA == << "A" >>
SongB == << "B" >>
ArtistX == << "X" >>

\* One element of data["items"]: song["track"]["name"],
\* song["track"]["album"]["artists"][0]["name"], song["played_at"].
Item(n, a, p) == [name |-> n, artist |-> a, played_at |-> p]

\* One row of the DataFrame, and of the table.
Row(s, a, p, t) == [song_name |-> s, artist_name |-> a, played_at |-> p, timestamp |-> t]

Columns == {"song_name", "artist_name", "played_at", "timestamp"}

\* Sequences of at most n elements of S.
SeqsUpTo(S, n) == UNION {[1..k -> S] : k \in 0..n}

\* What sp.current_user_recently_played may return: None, an empty dict, or a
\* dict with the key "items".
NoneResponse == [kind |-> "None", items |-> << >>]
EmptyDict == [kind |-> "EmptyDict", items |-> << >>]
Payload(items) == [kind |-> "Payload", items |-> items]

Items == {Item(n, ArtistX, p) : n \in {SongA, SongB, None}, p \in {P11, P21, P22, EmptyStr, None}}

Responses == {NoneResponse, EmptyDict} \cup {Payload(s) : s \in SeqsUpTo(Items, MaxItems)}

\* Mutant of Falsy: a response without play events counts as no response.
Falsy_OrNoItems(d) == d.kind \in {"None", "EmptyDict"} \/ Len(d.items) = 0

\* `not data`: None and the empty dict are falsy, a dict with a key is truthy.
Falsy(d) == d.kind \in {"None", "EmptyDict"}

(***************************************************************************)
(* transform_data                                                          *)
(***************************************************************************)
\* One pass of the loop of lines 73-77 over one item.
TransformItem(song) ==
    Row(song.name, song.artist, song.played_at, Slice10(song.played_at))

\* transform_data(data): [error, df].  song["played_at"][:10] raises TypeError
\* when played_at is None; the first such item ends the loop.
transform_data(d) ==
    IF \E i \in DOMAIN d.items : d.items[i].played_at = None
    THEN [error |-> "TypeError", df |-> << >>]
    ELSE [error |-> "none", df |-> [i \in DOMAIN d.items |-> TransformItem(d.items[i])]]

(***************************************************************************)
(* validate_data                                                           *)
(***************************************************************************)
\* Mutant of IsEmpty: the emptiness check is missing.
IsEmpty_Never(b) == FALSE

\* df.empty
IsEmpty(b) == Len(b) = 0

\* Mutant of IsUnique: the primary key check is missing.
IsUnique_Skipped(b) == TRUE

\* pd.Series(df['played_at']).is_unique: no value occurs twice (None is a value).
IsUnique(b) == \A i, j \in DOMAIN b : i # j => b[i].played_at # b[j].played_at

\* Mutant of HasNull: only the column song_name is checked for nulls.
HasNull_SongOnly(b) == \E i \in DOMAIN b : b[i].song_name = None

\* df.isnull().values.any(): some cell is None.  An empty string is not null.
HasNull(b) == \E i \in DOMAIN b : \E c \in Columns : b[i][c] = None

\* Whether the generator of line 123 yields True for ts (ts != today as dates).
NotToday(ts, now) == strptime(ts).date # now

\* The first row at which any(...) of line 123 stops: the first whose timestamp
\* does not parse (strptime raises) or is another date; 0 when there is none.
FirstStale(b, now) ==
    IF \E i \in DOMAIN b : ~strptime(b[i].timestamp).ok \/ NotToday(b[i].timestamp, now)
    THEN CHOOSE i \in DOMAIN b :
            /\ ~strptime(b[i].timestamp).ok \/ NotToday(b[i].timestamp, now)
            /\ \A j \in 1..(i - 1) :
                  strptime(b[j].timestamp).ok /\ ~NotToday(b[j].timestamp, now)
    ELSE 0

\* validate_data(df) when the clock shows `now`:
\* [ret |-> "True" / "False" / "none", error, today].
validate_data(b, now) ==
    IF IsEmpty(b) THEN [ret |-> "False", error |-> "none", today |-> NoDate]
    ELSE IF ~IsUnique(b) THEN [ret |-> "none", error |-> "PrimaryKeyError", today |-> NoDate]
    ELSE IF HasNull(b) THEN [ret |-> "none", error |-> "NullValuesError", today |-> NoDate]
    ELSE LET k == FirstStale(b, now)
         IN  IF k = 0 THEN [ret |-> "True", error |-> "none", today |-> now]
             ELSE IF ~strptime(b[k].timestamp).ok
                  THEN [ret |-> "none", error |-> "ValueError", today |-> now]
                  ELSE [ret |-> "none", error |-> "InvalidTimestampError", today |-> now]

(***************************************************************************)
(* The store: table my_played_tracks, PRIMARY KEY (played_at)              *)
(***************************************************************************)
\* Mutant of Conflicts: the table has no primary key constraint.
Conflicts_NoConstraint(t, r) == FALSE

\* Whether inserting row r into table t violates primary_key_constraint.
\* SQLite compares NULL keys as distinct.
Conflicts(t, r) ==
    /\ r.played_at # None
    /\ \E x \in BagToSet(t) : x.played_at = r.played_at

\* The executemany of df.to_sql: rows i.. of b are inserted one by one into t
\* until one violates the constraint.
RECURSIVE InsertFrom(_, _, _)
InsertFrom(t, b, i) ==
    IF i > Len(b) THEN [error |-> "none", rows |-> t]
    ELSE IF Conflicts(t, b[i]) THEN [error |-> "IntegrityError", rows |-> t]
    ELSE InsertFrom(t (+) SetToBag({b[i]}), b, i + 1)

\* df.to_sql("my_played_tracks", engine, index=False, if_exists="append") on
\* table t: one transaction, committed when every row went in and rolled back
\* when the insert raised.
to_sql(t, b) ==
    LET r == InsertFrom(t, b, 1)
    IN  IF r.error = "none" THEN r ELSE [error |-> r.error, rows |-> t]

\* Mutant of Handled: the try statement has no except clause.
Handled_Nothing(e) == FALSE

\* Which exceptions the try statement of load_data handles (line 161).
Handled(e) == e = "IntegrityError"

(***************************************************************************)
(* The local clock                                                         *)
(***************************************************************************)
\* Midnight passes.
Tick ==
    /\ clock = Day1
    /\ clock' = Day2
    /\ UNCHANGED << pc, data, df, today, valid, error, caught, calls, conn,
                    tableExists, store, storeAtStart, repeat, prevStore, prevError >>

(***************************************************************************)
(* main                                                                    *)
(***************************************************************************)
\* Line 175: data = extract_recently_played().  The response is the service's
\* choice; a falsy one raises ValueError, which ends the invocation.
Extract ==
    /\ pc = "main"
    /\ \E d \in Responses :
          /\ data' = d
          /\ IF Falsy(d)
             THEN error' = "ValueError" /\ pc' = "exit"
             ELSE error' = error /\ pc' = "extracted"
    /\ calls' = Append(calls, "extract_recently_played")
    /\ UNCHANGED << clock, df, today, valid, caught, conn, tableExists, store,
                    storeAtStart, repeat, prevStore, prevError >>

\* Line 178: df = transform_data(data).
Transform ==
    /\ pc = "extracted"
    /\ LET r == transform_data(data)
       IN  /\ df' = r.df
           /\ error' = r.error
           /\ pc' = IF r.error = "none" THEN "transformed" ELSE "exit"
    /\ calls' = Append(calls, "transform_data")
    /\ UNCHANGED << clock, data, today, valid, caught, conn, tableExists, store,
                    storeAtStart, repeat, prevStore, prevError >>

\* Mutant of Proceeds: main ignores what validate_data returns.
Proceeds_Always(r) == r.error = "none"

\* The condition of the if statement of line 182.
Proceeds(r) == r.ret = "True"

\* Line 182: if validate_data(df).
Validate ==
    /\ pc = "transformed"
    /\ LET r == validate_data(df, clock)
       IN  /\ valid' = r.ret
           /\ error' = r.error
           /\ today' = r.today
           /\ pc' = IF Proceeds(r) THEN "load" ELSE "exit"
    /\ calls' = Append(calls, "validate_data")
    /\ UNCHANGED << clock, data, df, caught, conn, tableExists, store,
                    storeAtStart, repeat, prevStore, prevError >>

\* Line 185, or the exception of load_data leaving main.
MainReturn ==
    /\ pc = "load_exit"
    /\ pc' = "exit"
    /\ UNCHANGED << clock, data, df, today, valid, error, caught, calls, conn,
                    tableExists, store, storeAtStart, repeat, prevStore, prevError >>

\* The next invocation of the script: a new process, the same database file.
Restart ==
    /\ pc = "exit"
    /\ pc' = "main"
    /\ data' = NoneResponse
    /\ df' = << >>
    /\ today' = NoDate
    /\ valid' = "none"
    /\ error' = "none"
    /\ caught' = "none"
    /\ calls' = << >>
    /\ conn' = "none"
    /\ storeAtStart' = store
    /\ UNCHANGED << clock, tableExists, store, repeat, prevStore, prevError >>

(***************************************************************************)
(* load_data                                                               *)
(***************************************************************************)
\* Lines 140-141: sqlite3.connect opens the connection, or raises when the
\* database file cannot be opened: then no connection exists and the exception
\* leaves load_data at once.
LoadConnect ==
    /\ pc = "load"
    /\ \/ /\ conn' = "open"
          /\ pc' = "create"
          /\ UNCHANGED error
       \/ /\ error' = "OperationalError"
          /\ pc' = "load_exit"
          /\ UNCHANGED conn
    /\ calls' = Append(calls, "load_data")
    /\ UNCHANGED << clock, data, df, today, valid, caught, tableExists,
                    store, storeAtStart, repeat, prevStore, prevError >>

\* Lines 154-155: cursor.execute(CREATE TABLE IF NOT EXISTS ...).  The statement
\* is outside the try statement: when the engine refuses it (a locked or
\* read-only database file), the exception leaves load_data at once.
LoadCreateTable ==
    /\ pc = "create"
    /\ \/ /\ tableExists' = TRUE
          /\ pc' = "to_sql"
          /\ UNCHANGED error
       \/ /\ error' = "OperationalError"
          /\ pc' = "load_exit"
          /\ UNCHANGED tableExists
    /\ UNCHANGED << clock, data, df, today, valid, caught, calls, conn, store,
                    storeAtStart, repeat, prevStore, prevError >>

\* Lines 159-162: the try body and its except clause.
LoadToSql ==
    /\ pc = "to_sql"
    /\ \/ LET r == to_sql(store, df)
          IN  /\ store' = r.rows
              /\ IF Handled(r.error)
                 THEN caught' = r.error /\ error' = error
                 ELSE caught' = caught /\ error' = r.error
       \/ /\ error' = "OperationalError"
          /\ UNCHANGED << store, caught >>
    /\ pc' = "finally"
    /\ UNCHANGED << clock, data, df, today, valid, calls, conn, tableExists,
                    storeAtStart, repeat, prevStore, prevError >>

\* Lines 163-166: the finally clause, then load_data returns or raises.
LoadFinally ==
    /\ pc = "finally"
    /\ conn' = "closed"
    /\ pc' = "load_exit"
    /\ UNCHANGED << clock, data, df, today, valid, error, caught, calls,
                    tableExists, store, storeAtStart, repeat, prevStore, prevError >>

(***************************************************************************)
(* Specifications                                                          *)
(***************************************************************************)
\* The script, invoked again and again on one database file that starts
\* absent or empty.
Init ==
    /\ clock \in ClockDays
    /\ pc = "main"
    /\ data = NoneResponse
    /\ df = << >>
    /\ today = NoDate
    /\ valid = "none"
    /\ error = "none"
    /\ caught = "none"
    /\ calls = << >>
    /\ conn = "none"
    /\ tableExists \in BOOLEAN
    /\ store = EmptyBag
    /\ storeAtStart = EmptyBag
    /\ repeat = FALSE
    /\ prevStore = EmptyBag
    /\ prevError = "none"

Next ==
    \/ Extract
    \/ Transform
    \/ Validate
    \/ LoadConnect
    \/ LoadCreateTable
    \/ LoadToSql
    \/ LoadFinally
    \/ MainReturn
    \/ Restart
    \/ Tick

Spec == Init /\ [][Next]_vars

(***************************************************************************)
(* validate_data on its own                                                *)
(***************************************************************************)
\* The rows validate_data is applied to: every column takes a text, the empty
\* string and None; timestamps are today's date, another day's, today's
\* written without padding, and texts that are no date.
ValRows ==
    {Row(s, ArtistX, p, t) : s \in {SongA, EmptyStr, None}, p \in {P21, None},
                             t \in {DateDay2, DateDay1, EmptyStr}}
    \cup {Row(SongA, a, P22, t) : a \in {ArtistX, EmptyStr, None},
                                  t \in {DateDay2, DateDay2Short, None}}
    \cup {Row(SongA, ArtistX, EmptyStr, DateDay2), Row(SongA, ArtistX, P23, DateDay2Wide)}

ValBatches == SeqsUpTo(ValRows, MaxItems)

InitValidate ==
    /\ clock \in ClockDays
    /\ pc = "call_validate"
    /\ data = NoneResponse
    /\ df \in ValBatches
    /\ today = NoDate
    /\ valid = "none"
    /\ error = "none"
    /\ caught = "none"
    /\ calls = << >>
    /\ conn = "none"
    /\ tableExists = FALSE
    /\ store = EmptyBag
    /\ storeAtStart = EmptyBag
    /\ repeat = FALSE
    /\ prevStore = EmptyBag
    /\ prevError = "none"

\* validate_data(df) is called and returns or raises.
CallValidate ==
    /\ pc = "call_validate"
    /\ LET r == validate_data(df, clock)
       IN  /\ valid' = r.ret
           /\ error' = r.error
           /\ today' = r.today
    /\ pc' = "validate_exit"
    /\ calls' = Append(calls, "validate_data")
    /\ UNCHANGED << clock, data, df, caught, conn, tableExists, store,
                    storeAtStart, repeat, prevStore, prevError >>

NextValidate == CallValidate

SpecValidate == InitValidate /\ [][NextValidate]_vars

(***************************************************************************)
(* load_data on its own: called again and again on one database file, each *)
(* time with a batch validate_data accepts, or with the previous batch     *)
(* again                                                                   *)
(***************************************************************************)
LoadRows ==
    {TransformItem(Item(n, ArtistX, p)) : n \in {SongA, SongB}, p \in {P11, P21, P22, P23}}

\* The batches validate_data lets through, by the date the clock shows.
ValidatedBatches ==
    [now \in ClockDays |->
        {b \in SeqsUpTo(LoadRows, MaxItems) : validate_data(b, now).ret = "True"}]

InitLoad ==
    /\ clock \in ClockDays
    /\ pc = "caller"
    /\ data = NoneResponse
    /\ df = << >>
    /\ today = NoDate
    /\ valid = "none"
    /\ error = "none"
    /\ caught = "none"
    /\ calls = << >>
    /\ conn = "none"
    /\ tableExists \in BOOLEAN
    /\ store = EmptyBag
    /\ storeAtStart = EmptyBag
    /\ repeat = FALSE
    /\ prevStore = EmptyBag
    /\ prevError = "none"

\* load_data(B) for a validated batch B.
CallLoad ==
    /\ pc = "caller"
    /\ df' \in ValidatedBatches[clock]
    /\ storeAtStart' = store
    /\ prevStore' = store
    /\ pc' = "load"
    /\ UNCHANGED << clock, data, today, valid, error, caught, calls, conn,
                    tableExists, store, repeat, prevError >>

\* The caller is done with the call that ended.
Return ==
    /\ pc = "load_exit"
    /\ pc' = "caller"
    /\ df' = << >>
    /\ error' = "none"
    /\ caught' = "none"
    /\ calls' = << >>
    /\ conn' = "none"
    /\ repeat' = FALSE
    /\ prevError' = "none"
    /\ storeAtStart' = store
    /\ prevStore' = store
    /\ UNCHANGED << clock, data, today, valid, tableExists, store >>

\* load_data(B) again, with the batch of the call that just ended.
CallLoadAgain ==
    /\ pc = "load_exit"
    /\ repeat' = TRUE
    /\ prevStore' = store
    /\ prevError' = error
    /\ storeAtStart' = store
    /\ pc' = "load"
    /\ error' = "none"
    /\ caught' = "none"
    /\ calls' = << >>
    /\ conn' = "none"
    /\ UNCHANGED << clock, data, df, today, valid, tableExists, store >>

NextLoad ==
    \/ CallLoad
    \/ CallLoadAgain
    \/ Return
    \/ LoadConnect
    \/ LoadCreateTable
    \/ LoadToSql
    \/ LoadFinally
    \/ Tick

SpecLoad == InitLoad /\ [][NextLoad]_vars

(***************************************************************************)
(* Properties                                                              *)
(***************************************************************************)
\* Function f was invoked by the running invocation.
Invoked(f) == \E i \in DOMAIN calls : calls[i] = f

\* No two rows of table t have the same played_at.
KeyUnique(t) ==
    /\ \A x \in BagToSet(t) : CopiesIn(x, t) = 1
    /\ \A x, y \in BagToSet(t) : x.played_at = y.played_at => x = y

\* Some row of table t has the played_at of row r.
KeyStored(t, r) == \E x \in BagToSet(t) : x.played_at = r.played_at

\* Two records of batch b share played_at.
SharesPlayedAt(b) ==
    \E i, j \in DOMAIN b : i < j /\ b[i].played_at = b[j].played_at

\* Some cell of batch b is None; is None or the empty string.
NullCell(b) ==
    \E i \in DOMAIN b :
        None \in {b[i].song_name, b[i].artist_name, b[i].played_at, b[i].timestamp}

NullOrEmptyCell(b) ==
    \E i \in DOMAIN b :
        {None, EmptyStr} \cap
            {b[i].song_name, b[i].artist_name, b[i].played_at, b[i].timestamp} # {}

\* Batch b gets past the emptiness, primary key and null checks.
PassesEarlierChecks(b) == Len(b) > 0 /\ ~SharesPlayedAt(b) /\ ~NullCell(b)

\* The timestamp of record r names a date, and not the date d.
DatedOtherwise(r, d) == strptime(r.timestamp).ok /\ strptime(r.timestamp).date # d

\* C1 (SpecLoad): when load_data(B) has returned for a validated batch B and is
\* called again with B, the second call leaves the table with exactly the rows
\* the first call left, no played_at occurs twice, and the conflict does not
\* reach the caller: the only exception that can is a failure of the database
\* engine itself.
C1_IdempotentLoad ==
    (pc = "load_exit" /\ repeat /\ prevError = "none")
        => /\ store = prevStore
           /\ KeyUnique(store)
           /\ error \in {"none", "OperationalError"}

\* A two-record batch went in with the first call, and the second call met the
\* conflict and returned normally.
C1_Witness ==
    /\ pc = "load_exit" /\ repeat /\ prevError = "none"
    /\ Len(df) = 2
    /\ \A i \in DOMAIN df : CopiesIn(df[i], store) = 1
    /\ caught = "IntegrityError"
    /\ error = "none"

\* C2 (Spec): in every state the invocations of main reach, starting from an
\* absent or empty table, no two rows of my_played_tracks have the same
\* played_at.
C2_KeyUniqueness == KeyUnique(store)

\* The table holds two rows and a later batch that overlaps it was loaded.
C2_Witness ==
    /\ pc = "exit"
    /\ BagCardinality(store) >= 2
    /\ caught = "IntegrityError"

\* C3 (SpecLoad), as claimed: when load_data returns, every record of the batch
\* is in the table exactly once, or a row with its played_at was in the table
\* before the call.
C3_EveryRecordStoredOrDuplicate ==
    (pc = "load_exit" /\ error = "none")
        => \A i \in DOMAIN df :
              \/ CopiesIn(df[i], store) = 1
              \/ KeyStored(storeAtStart, df[i])

\* C4 (Spec): when validate_data is given a non-empty batch in which two
\* records share played_at, it raises PrimaryKeyError, main ends with that
\* error, load_data is not invoked and the table is as it was.
C4_PrimaryKeyGate ==
    (Invoked("validate_data") /\ Len(df) > 0 /\ SharesPlayedAt(df))
        => /\ error = "PrimaryKeyError"
           /\ pc = "exit"
           /\ ~Invoked("load_data")
           /\ store = storeAtStart

\* A batch with a repeated played_at was refused while the table held rows.
C4_Witness ==
    /\ Invoked("validate_data") /\ Len(df) > 0 /\ SharesPlayedAt(df)
    /\ error = "PrimaryKeyError"
    /\ BagCardinality(store) > 0

\* C5 (SpecValidate), as claimed: a batch with a null or empty value in any of
\* the four fields makes validate_data raise NullValuesError, whatever else is
\* true of the batch.
C5_NullOrEmptyFails ==
    (pc = "validate_exit" /\ NullOrEmptyCell(df)) => error = "NullValuesError"

\* C5 (SpecValidate), amended: a batch whose played_at values are pairwise
\* distinct and that has a None in any of the four fields makes validate_data
\* raise NullValuesError; it returns nothing.
C5_NullFails ==
    (pc = "validate_exit" /\ ~SharesPlayedAt(df) /\ NullCell(df))
        => error = "NullValuesError" /\ valid = "none"

\* The None is in a column other than song_name, in the second record.
C5_Witness ==
    /\ pc = "validate_exit"
    /\ Len(df) = 2
    /\ df[1].song_name # None /\ df[2].song_name # None
    /\ df[2].artist_name = None
    /\ ~SharesPlayedAt(df)
    /\ error = "NullValuesError"

\* C6 (SpecValidate), as claimed: when validate_data returns true every
\* timestamp of the batch is the date the clock shows, and a batch that passes
\* the earlier checks and has a record dated otherwise makes it raise
\* InvalidTimestampError.
C6_Freshness ==
    pc = "validate_exit"
        => /\ valid = "True"
                => \A i \in DOMAIN df : strptime(df[i].timestamp) = [ok |-> TRUE, date |-> clock]
           /\ (PassesEarlierChecks(df) /\ \E i \in DOMAIN df : DatedOtherwise(df[i], clock))
                => error = "InvalidTimestampError"

\* C7 (Spec): when validate_data is given a batch of zero records it raises
\* nothing and returns false, main ends without invoking load_data, and the
\* table is as it was.
C7_EmptyShortCircuit ==
    (Invoked("validate_data") /\ Len(df) = 0)
        => /\ valid = "False"
           /\ error = "none"
           /\ pc = "exit"
           /\ ~Invoked("load_data")
           /\ store = storeAtStart

\* An empty batch reached validate_data while the table held rows.
C7_Witness ==
    /\ Invoked("validate_data") /\ Len(df) = 0
    /\ pc = "exit"
    /\ BagCardinality(store) > 0

\* C8 (Spec), as claimed: a response that carries zero play events ends the
\* invocation like no response at all: extract_recently_played raises and
\* neither transform_data nor validate_data runs.
C8_ZeroEventsAbort ==
    (pc = "exit" /\ Invoked("extract_recently_played")
        /\ data.kind = "Payload" /\ Len(data.items) = 0)
        => /\ error = "ValueError"
           /\ ~Invoked("transform_data")
           /\ ~Invoked("validate_data")

\* C8 (Spec), amended: extract_recently_played raises its ValueError, and the
\* invocation ends before transform_data and validate_data, when the response
\* is None or an empty dict; a response that carries an item list with zero
\* play events is returned, transform_data makes the empty batch of it and
\* validate_data returns false, with no error and without load_data.
C8_OnlyFalsyResponseAborts ==
    /\ (Invoked("extract_recently_played") /\ data.kind \in {"None", "EmptyDict"})
          => /\ pc = "exit"
             /\ error = "ValueError"
             /\ calls = << "extract_recently_played" >>
    /\ (pc = "exit" /\ data.kind = "Payload" /\ Len(data.items) = 0)
          => /\ error = "none"
             /\ valid = "False"
             /\ calls = << "extract_recently_played", "transform_data", "validate_data" >>

\* A response with zero play events went through to validate_data.
C8_Witness ==
    /\ pc = "exit"
    /\ data.kind = "Payload" /\ Len(data.items) = 0
    /\ valid = "False"
    /\ Invoked("validate_data")

\* C9 (SpecLoad), as claimed: whenever load_data returns or raises after it
\* opened the connection, the connection is closed: load_data never ends with
\* the connection still open.
C9_ConnectionReleased == pc = "load_exit" => conn # "open"

\* C10 (Spec): load_data is invoked only after validate_data returned true, and
\* an invocation in which extraction or validation raised ends with that error,
\* without load_data, the connection never opened and the table as it was.
C10_AllOrNothingGate ==
    /\ Invoked("load_data")
          => /\ valid = "True"
             /\ SubSeq(calls, 1, 4) = << "extract_recently_played", "transform_data",
                                         "validate_data", "load_data" >>
    /\ error \in {"ValueError", "PrimaryKeyError", "NullValuesError", "InvalidTimestampError"}
          => /\ pc = "exit"
             /\ ~Invoked("load_data")
             /\ conn = "none"
             /\ store = storeAtStart

\* A stale batch was refused while the table held rows.
C10_Witness ==
    /\ pc = "exit"
    /\ error = "InvalidTimestampError"
    /\ BagCardinality(store) > 0
    /\ ~Invoked("load_data")

====
